---- MODULE Spec2Model ----
(***************************************************************************)
(* Model of atnf-beauty: the catalog fetcher (query.py), the dataset       *)
(* loader and the plotting entry points (plot_msp_distance.py,             *)
(* plot_ppdot.py) and the size scaling helper (utils.py).                  *)
(*                                                                         *)
(* Numbers are modelled exactly, as integers and as rationals <<n, d>>     *)
(* with d > 0, on a small grid of values; floating point rounding is not   *)
(* modelled.                                                               *)
(***************************************************************************)
EXTENDS Integers, Sequences, FiniteSets, TLC

VARIABLES
    file,       \* the dataset file: NoFile, or the sequence of its lines
    t,          \* query.table of the last query_atnf call (NoTable: none)
    ret,        \* the value the last query_atnf call returned
    outcome,    \* "none" | "ok" | "failed": how the last query_atnf ended
    emptyLoads, \* the installed numpy loads a file without data rows as
                \* empty arrays (TRUE) or fails to unpack it (FALSE)
    plot,       \* what the last plot_* call did
    images,     \* the image files written so far
    saves,      \* per image file, how the last savefig call for it ended
    main,       \* position of plot_msp_distance.py run as a script
    fetch,      \* position, loop index, counter and write buffer of a
                \* query_atnf running step by step
    loaded,     \* what a load_data concurrent with the fetcher last read
    scaleArgs,  \* the arguments of the scale_size call
    scaleOut    \* what the scale_size call produced

fetchVars == <<file, t, ret, outcome>>
plotVars == <<emptyLoads, plot, images, saves, main>>
raceVars == <<fetch, loaded>>
scaleVars == <<scaleArgs, scaleOut>>
vars == <<file, t, ret, outcome, emptyLoads, plot, images, saves, main, fetch, loaded,
          scaleArgs, scaleOut>>

-----------------------------------------------------------------------------
(* Bounds *)

\* longest service response (rows of query.table)
MaxRows == 2

-----------------------------------------------------------------------------
(* Small helpers *)

Abs(x) == IF x < 0 THEN -x ELSE x

RECURSIVE Pow10(_)
Pow10(k) == IF k = 0 THEN 1 ELSE 10 * Pow10(k - 1)

\* number of decimal digits of a natural number v >= 1
RECURSIVE Digits(_)
Digits(v) == IF v < 10 THEN 1 ELSE 1 + Digits(v \div 10)

-----------------------------------------------------------------------------
(* query.py *)

\* the dataset file does not exist / no response was received
NoFile == [exists |-> FALSE, lines |-> <<>>]
NoTable == [received |-> FALSE, rows |-> <<>>]

FileOf(lines) == [exists |-> TRUE, lines |-> lines]
TableOf(rows) == [received |-> TRUE, rows |-> rows]

\* A cell of the response, and a token of a file line: a number, the
\* service's missing-value marker '--', or some other text.
Num(v) == <<"num", v>>
Missing == <<"--", 0>>
NotANumber == <<"abc", 0>>

IsNumber(c) == c[1] = "num"

Fields == {"P0", "P1", "EDOT", "XX", "YY"}

\* query.py:27, the comment line opening the file
HeaderLine == [comment |-> TRUE, cols |-> <<>>]

DataLine(cols) == [comment |-> FALSE, cols |-> cols]

\* a >= 0 rounded to a multiple of p, a tie going to the even multiple
RoundHalfEven(a, p) ==
    IF 2 * (a % p) > p \/ (2 * (a % p) = p /\ (a \div p) % 2 = 1)
    THEN (a \div p + 1) * p
    ELSE (a \div p) * p

\* A python format spec '10.<prec>e' keeps prec digits after the leading one,
\* that is prec + 1 significant digits, rounding half to even.  Values are
\* integers (fixed point); the width 10 only pads.
FormatE(v, prec) ==
    IF v = 0 THEN 0
    ELSE IF Digits(Abs(v)) <= prec + 1 THEN v
    ELSE IF v < 0 THEN -RoundHalfEven(-v, Pow10(Digits(-v) - prec - 1))
    ELSE RoundHalfEven(v, Pow10(Digits(v) - prec - 1))

\* query.py:36, the test guarding the write
AllPresent(row) ==
    /\ row.P0 # Missing
    /\ row.P1 # Missing
    /\ row.EDOT # Missing
    /\ row.XX # Missing
    /\ row.YY # Missing

\* query.py:37, the f-string: raises when a field is not a number
FormatRaises(row) == \E f \in Fields : ~IsNumber(row[f])

FormatLine(row) ==
    DataLine(<< Num(FormatE(row.P0[2], 5)), Num(FormatE(row.P1[2], 5)),
                Num(FormatE(row.EDOT[2], 5)),
                Num(FormatE(row.XX[2], 3)), Num(FormatE(row.YY[2], 3)) >>)

\* the loop with the counter incremented for every row, written or not
RECURSIVE WriteRows_CountAll(_, _, _, _)
WriteRows_CountAll(rows, i, lines, counter) ==
    IF i > Len(rows) THEN [lines |-> lines, counter |-> counter, raised |-> FALSE]
    ELSE IF AllPresent(rows[i])
         THEN IF FormatRaises(rows[i])
              THEN [lines |-> lines, counter |-> counter, raised |-> TRUE]
              ELSE WriteRows_CountAll(rows, i + 1, Append(lines, FormatLine(rows[i])),
                                      counter + 1)
         ELSE WriteRows_CountAll(rows, i + 1, lines, counter + 1)

\* The loop of query.py:28-38 over rows[i..], started with the lines and the
\* counter accumulated so far.  It stops at the first row whose line cannot
\* be formatted; what was written before stays in the file.
RECURSIVE WriteRows(_, _, _, _)
WriteRows(rows, i, lines, counter) ==
    IF i > Len(rows) THEN [lines |-> lines, counter |-> counter, raised |-> FALSE]
    ELSE IF AllPresent(rows[i])
         THEN IF FormatRaises(rows[i])
              THEN [lines |-> lines, counter |-> counter, raised |-> TRUE]
              ELSE WriteRows(rows, i + 1, Append(lines, FormatLine(rows[i])), counter + 1)
         ELSE WriteRows(rows, i + 1, lines, counter)

\* the values the catalog returns for a field (fixed point integers)
FieldValues(f) ==
    CASE f = "P0"   -> {Num(1), Num(2)}
      [] f = "P1"   -> {Num(3)}
      [] f = "EDOT" -> {Num(1234567)}
      [] f = "XX"   -> {Num(-12346)}
      [] f = "YY"   -> {Num(5)}

AllRows == [P0 : FieldValues("P0") \cup {Missing},
            P1 : FieldValues("P1") \cup {Missing},
            EDOT : FieldValues("EDOT") \cup {Missing, NotANumber},
            XX : FieldValues("XX") \cup {Missing},
            YY : FieldValues("YY") \cup {Missing}]

NMissing(row) == Cardinality({f \in Fields : row[f] = Missing})

\* the rows a response is built from: two complete rows, a complete row
\* whose EDOT is not a number, a row for each field missing alone, a row
\* without P0 whose EDOT is not a number, and a row with nothing
Rows == {r \in AllRows :
            \/ NMissing(r) = 0 /\ (r.EDOT = NotANumber => r.P0 = Num(1))
            \/ NMissing(r) = 1 /\ r.P0 # Num(2) /\ r.EDOT # NotANumber
            \/ NMissing(r) = 1 /\ r.P0 = Missing
            \/ NMissing(r) = 5}

\* the sequences over S of length at most n
SeqsUpTo(S, n) == UNION {[1..k -> S] : k \in 0..n}

Tables == SeqsUpTo(Rows, MaxRows)

\* query_atnf with the file opened for appending
query_atnf_append(queryRaises, table) ==
    IF queryRaises
    THEN /\ t' = NoTable
         /\ ret' = 0
         /\ outcome' = "failed"
         /\ UNCHANGED file
    ELSE \E w \in {WriteRows(table, 1, file.lines \o <<HeaderLine>>, 0)} :
             /\ t' = TableOf(table)
             /\ file' = FileOf(w.lines)
             /\ ret' = IF w.raised THEN 0 ELSE w.counter
             /\ outcome' = IF w.raised THEN "failed" ELSE "ok"

\* query_atnf(output_file), query.py:4-45.  queryRaises: QueryATNF or
\* query.table raises (network, schema) and nothing was opened; otherwise
\* the file is opened for writing, which truncates it, and table is what the
\* service answered.
query_atnf(queryRaises, table) ==
    IF queryRaises
    THEN /\ t' = NoTable
         /\ ret' = 0
         /\ outcome' = "failed"
         /\ UNCHANGED file
    ELSE \E w \in {WriteRows(table, 1, <<HeaderLine>>, 0)} :
             /\ t' = TableOf(table)
             /\ file' = FileOf(w.lines)
             /\ ret' = IF w.raised THEN 0 ELSE w.counter
             /\ outcome' = IF w.raised THEN "failed" ELSE "ok"

FetchFails == query_atnf(TRUE, <<>>) /\ UNCHANGED <<plotVars, raceVars, scaleVars>>

FetchAnswered ==
    /\ \E table \in Tables : query_atnf(FALSE, table)
    /\ UNCHANGED <<plotVars, raceVars, scaleVars>>

-----------------------------------------------------------------------------
(* Exact arithmetic: a rational is <<n, d>> with d > 0 *)

Rat(n, d) == IF d < 0 THEN <<-n, -d>> ELSE <<n, d>>
RatOf(n) == <<n, 1>>
RatAdd(a, b) == <<a[1] * b[2] + b[1] * a[2], a[2] * b[2]>>
RatMul(a, b) == <<a[1] * b[1], a[2] * b[2]>>
RatEq(a, b) == a[1] * b[2] = b[1] * a[2]
RatLt(a, b) == a[1] * b[2] < b[1] * a[2]

-----------------------------------------------------------------------------
(* plot_msp_distance.py, plot_ppdot.py *)

\* Units of the grid: P0 in seconds, XX and YY in kpc, and P1 in a unit u
\* chosen so that the two thresholds below are whole numbers.

\* constants.KYR times u, in seconds
KYR == 1

\* (1e10 / B_critical)^2 divided by u: Pdot_from_B(period, 1e10) * period
B10Sq == 800

\* plot_msp_distance.py:83
D_threshold == 5

\* plot_msp_distance.py:79, the Sun's galactocentric distance
SunX == 8

\* plot_msp_distance.py:84
age_threshold == 50 * KYR

\* Pdot_from_B(period, 1e10), plot_msp_distance.py:11-14; period > 0
Pdot_from_B(period) == Rat(B10Sq, period)

\* numpy.loadtxt(filename, usecols=(0, ..., ncols-1), unpack=True): raises
\* (ok = FALSE) when the file does not exist or a data line has too few
\* columns or a token that is no number; comment lines are skipped.  A file
\* without data lines gives empty arrays or fails to unpack, by the numpy
\* installed.
LoadTxt(f, ncols, emptyOK) ==
    LET data == SelectSeq(f.lines, LAMBDA l : ~l.comment)
        bad(l) == \/ Len(l.cols) < ncols
                  \/ \E k \in 1..ncols : ~IsNumber(l.cols[k])
    IN  IF ~f.exists THEN [ok |-> FALSE, recs |-> <<>>]
        ELSE IF \E i \in 1..Len(data) : bad(data[i]) THEN [ok |-> FALSE, recs |-> <<>>]
        ELSE IF Len(data) = 0 /\ ~emptyOK THEN [ok |-> FALSE, recs |-> <<>>]
        ELSE [ok |-> TRUE,
              recs |-> [i \in 1..Len(data) |->
                           [k \in 1..ncols |-> data[i].cols[k][2]]]]

\* load_data of plot_msp_distance.py:16-23: P0, P1, EDOT, XX, YY (columns
\* 1..5 of each record), or None for each (ok = FALSE)
load_data(f, emptyOK) == LoadTxt(f, 5, emptyOK)

\* load_data of plot_ppdot.py:20-27: P0, P1, log10(EDOT), or None for each
load_data_ppdot(f, emptyOK) == LoadTxt(f, 3, emptyOK)

\* age = P0 / (2.0 * P1) compared with a threshold, as numpy computes it:
\* P1 = 0 gives inf (nan for P0 = 0), P1 < 0 a negative age for P0 > 0
AgeGreater(P0, P1, thr) ==
    IF P1 > 0 THEN P0 > 2 * P1 * thr
    ELSE IF P1 = 0 THEN P0 > 0
    ELSE P0 < 2 * P1 * thr

\* distance**2 = (XX + 8.0)**2 + YY**2
Distance2(XX, YY) == (XX + SunX) * (XX + SunX) + YY * YY

RECURSIVE MaxDistance2(_, _)
MaxDistance2(recs, i) ==
    IF i > Len(recs) THEN 0
    ELSE LET d == Distance2(recs[i][4], recs[i][5])
             m == MaxDistance2(recs, i + 1)
         IN  IF d > m THEN d ELSE m

\* the mask with the distance cut taken relative to the farthest record
NearbyMask_Relative(recs) ==
    [i \in 1..Len(recs) |->
        /\ Distance2(recs[i][4], recs[i][5]) < MaxDistance2(recs, 1)
        /\ AgeGreater(recs[i][1], recs[i][2], age_threshold)]

\* mask of plot_msp_distance.py:85, one boolean per record
NearbyMask(recs) ==
    [i \in 1..Len(recs) |->
        /\ Distance2(recs[i][4], recs[i][5]) < D_threshold * D_threshold
        /\ AgeGreater(recs[i][1], recs[i][2], age_threshold)]

\* a[mask]: the elements of a where mask holds, in order
RECURSIVE Masked(_, _, _)
Masked(a, mask, i) ==
    IF i > Len(a) THEN <<>>
    ELSE IF mask[i] THEN <<a[i]>> \o Masked(a, mask, i + 1)
    ELSE Masked(a, mask, i + 1)

\* EDOT / distance**2 of one record (distance > 0 on the grid)
EDOT_D2(rec) == Rat(rec[3], Distance2(rec[4], rec[5]))

RECURSIVE RatSum(_, _)
RatSum(a, i) == IF i > Len(a) THEN RatOf(0) ELSE RatAdd(a[i], RatSum(a, i + 1))

\* plot_msp_distance.py:102
less_than_threshold(filtered) ==
    [i \in 1..Len(filtered) |->
        RatLt(RatOf(filtered[i][2]), Pdot_from_B(filtered[i][1]))]

\* plot_msp_distance.py:103
more_than_threshold(filtered) ==
    [i \in 1..Len(filtered) |->
        RatLt(Pdot_from_B(filtered[i][1]), RatOf(filtered[i][2]))]

EDOT_D2s(recs) == [i \in 1..Len(recs) |-> EDOT_D2(recs[i])]

NoPlot ==
    [fn |-> "none", loaded |-> FALSE, raised |-> FALSE, savefig |-> FALSE,
     selected |-> <<>>, msp_count |-> RatOf(0), normal_count |-> RatOf(0)]

Outputs == {"ATNF_msp_distance.pdf", "ATNF_msp_nearby.pdf", "ATNF_PPDOT.pdf"}

\* savefig without the try: a failure of fig.savefig reaches the caller
savefig_Uncaught(output_file, saved) ==
    [images |-> IF saved THEN images \cup {output_file} ELSE images,
     status |-> IF saved THEN "saved" ELSE "failed",
     raised |-> ~saved]

\* savefig of utils.py:6-22: fig.savefig writes the image, or raises and the
\* error is caught and printed
savefig(output_file, saved) ==
    [images |-> IF saved THEN images \cup {output_file} ELSE images,
     status |-> IF saved THEN "saved" ELSE "failed",
     raised |-> FALSE]

\* plot_distance(filename), plot_msp_distance.py:25-63.  The builtin min()
\* of line 38 raises on an empty array and on the scalar that loadtxt gives
\* for a single row.
plot_distance(saved) ==
    LET d == load_data(file, emptyLoads)
    IN  IF ~d.ok
        THEN /\ plot' = [NoPlot EXCEPT !.fn = "distance"]
             /\ UNCHANGED <<images, saves>>
        ELSE IF Len(d.recs) <= 1
        THEN /\ plot' = [NoPlot EXCEPT !.fn = "distance", !.loaded = TRUE,
                                       !.raised = TRUE]
             /\ UNCHANGED <<images, saves>>
        ELSE LET sel == [i \in 1..Len(d.recs) |->
                            RatLt(RatOf(d.recs[i][2]), Pdot_from_B(d.recs[i][1]))]
                 s == savefig("ATNF_msp_distance.pdf", saved)
             IN  /\ plot' = [NoPlot EXCEPT !.fn = "distance", !.loaded = TRUE,
                                           !.savefig = TRUE, !.raised = s.raised,
                                           !.selected = Masked(d.recs, sel, 1)]
                 /\ images' = s.images
                 /\ saves' = [saves EXCEPT !["ATNF_msp_distance.pdf"] = s.status]

\* plot_nearby(filename), plot_msp_distance.py:65-112
plot_nearby(saved) ==
    LET d == load_data(file, emptyLoads)
    IN  IF ~d.ok
        THEN /\ plot' = [NoPlot EXCEPT !.fn = "nearby"]
             /\ UNCHANGED <<images, saves>>
        ELSE LET mask == NearbyMask(d.recs)
                 filtered == Masked(d.recs, mask, 1)
                 EDOT_D2_filtered == EDOT_D2s(filtered)
                 msp == RatSum(Masked(EDOT_D2_filtered, less_than_threshold(filtered), 1), 1)
                 normal == RatSum(Masked(EDOT_D2_filtered, more_than_threshold(filtered), 1), 1)
                 s == savefig("ATNF_msp_nearby.pdf", saved)
             IN  /\ plot' = [NoPlot EXCEPT !.fn = "nearby", !.loaded = TRUE,
                                           !.savefig = TRUE, !.raised = s.raised,
                                           !.selected = filtered,
                                           !.msp_count = msp,
                                           !.normal_count = normal]
                 /\ images' = s.images
                 /\ saves' = [saves EXCEPT !["ATNF_msp_nearby.pdf"] = s.status]

\* plot_ppdot(filename), plot_ppdot.py:43-80: no selection, every record is
\* plotted
plot_ppdot(saved) ==
    LET d == load_data_ppdot(file, emptyLoads)
    IN  IF ~d.ok
        THEN /\ plot' = [NoPlot EXCEPT !.fn = "ppdot"]
             /\ UNCHANGED <<images, saves>>
        ELSE LET s == savefig("ATNF_PPDOT.pdf", saved)
             IN  /\ plot' = [NoPlot EXCEPT !.fn = "ppdot", !.loaded = TRUE,
                                           !.savefig = TRUE, !.raised = s.raised,
                                           !.selected = d.recs]
                 /\ images' = s.images
                 /\ saves' = [saves EXCEPT !["ATNF_PPDOT.pdf"] = s.status]

\* one plot function called on its own
PlotDistance ==
    /\ plot.fn = "none"
    /\ \E saved \in BOOLEAN : plot_distance(saved)
    /\ UNCHANGED <<fetchVars, emptyLoads, main, raceVars, scaleVars>>

PlotNearby ==
    /\ plot.fn = "none"
    /\ \E saved \in BOOLEAN : plot_nearby(saved)
    /\ UNCHANGED <<fetchVars, emptyLoads, main, raceVars, scaleVars>>

PlotPpdot ==
    /\ plot.fn = "none"
    /\ \E saved \in BOOLEAN : plot_ppdot(saved)
    /\ UNCHANGED <<fetchVars, emptyLoads, main, raceVars, scaleVars>>

\* plot_msp_distance.py:114-116 run as a script: plot_distance, then
\* plot_nearby; an exception leaving a plot function ends the process
MainDistance ==
    /\ main = "distance"
    /\ \E saved \in BOOLEAN : plot_distance(saved)
    /\ main' = IF plot'.raised THEN "crashed" ELSE "nearby"
    /\ UNCHANGED <<fetchVars, emptyLoads, raceVars, scaleVars>>

MainNearby ==
    /\ main = "nearby"
    /\ \E saved \in BOOLEAN : plot_nearby(saved)
    /\ main' = IF plot'.raised THEN "crashed" ELSE "done"
    /\ UNCHANGED <<fetchVars, emptyLoads, raceVars, scaleVars>>

\* longest dataset file handed to the plots (data lines)
MaxRecs == 2

\* the records of the dataset files: P0, P1, EDOT, XX, YY
GridRecords ==
    {<<400, p1, 90, x, 0>> : p1 \in {1, 2, 3, 5}, x \in {-5, -3}}

\* the lines of the dataset files: records, a line of four columns, a line
\* of two columns, and a line whose second column is no number
GridLines ==
    {DataLine([k \in 1..5 |-> Num(r[k])]) : r \in GridRecords}
    \cup {DataLine(<<Num(400), Num(1), Num(90), Num(-5)>>),
          DataLine(<<Num(400), Num(1)>>),
          DataLine(<<Num(400), NotANumber, Num(90), Num(-5), Num(0)>>)}

DatasetFiles ==
    {NoFile} \cup {FileOf(<<HeaderLine>> \o ls) : ls \in SeqsUpTo(GridLines, MaxRecs)}

-----------------------------------------------------------------------------
(* query_atnf step by step, with a plot's load_data running beside it *)

\* before: the file as it was when the last call of query_atnf began
Idle == [pc |-> "idle", i |-> 0, counter |-> 0, buf |-> <<>>, before |-> NoFile]

NotLoaded == [done |-> FALSE, during |-> FALSE, content |-> NoFile,
              previous |-> NoFile, whole |-> FALSE, dataset |-> NoFile]

\* the rows of the responses of the step by step fetcher: a complete row,
\* the complete row whose EDOT is not a number, and the row without P1
RaceRows ==
    {r \in Rows : \/ NMissing(r) = 0 /\ r.P0 = Num(1)
                  \/ NMissing(r) = 1 /\ r.P1 = Missing}

RaceTables == SeqsUpTo(RaceRows, MaxRows)

\* the file a query_atnf that runs to its end leaves for a table, and
\* whether it does run to its end
DatasetOf(table) == FileOf(WriteRows(table, 1, <<HeaderLine>>, 0).lines)
RunsToEnd(table) == ~WriteRows(table, 1, <<HeaderLine>>, 0).raised

\* query.py:20-21 raises: the except clause returns 0
StepQueryFails ==
    /\ fetch.pc = "idle"
    /\ t' = NoTable
    /\ ret' = 0
    /\ outcome' = "failed"
    /\ fetch' = [Idle EXCEPT !.before = file]
    /\ UNCHANGED <<file, loaded, plotVars, scaleVars>>

\* query.py:20-21 answers
StepQuery ==
    /\ fetch.pc = "idle"
    /\ \E table \in RaceTables : t' = TableOf(table)
    /\ fetch' = [Idle EXCEPT !.pc = "open", !.before = file]
    /\ UNCHANGED <<file, ret, outcome, loaded, plotVars, scaleVars>>

\* query.py:25-27: open(output_file, 'w') truncates the file on disk; the
\* header goes to the write buffer of the file object
StepOpen ==
    /\ fetch.pc = "open"
    /\ file' = FileOf(<<>>)
    /\ fetch' = [fetch EXCEPT !.pc = "loop", !.i = 1, !.buf = <<HeaderLine>>]
    /\ UNCHANGED <<t, ret, outcome, loaded, plotVars, scaleVars>>

\* query.py:28-38, one row: the line goes to the write buffer; an exception
\* leaves the with block, which closes the file and so flushes the buffer,
\* and the except clause returns 0
StepRow ==
    /\ fetch.pc = "loop"
    /\ fetch.i <= Len(t.rows)
    /\ LET row == t.rows[fetch.i]
       IN  IF AllPresent(row) /\ FormatRaises(row)
           THEN /\ file' = FileOf(file.lines \o fetch.buf)
                /\ ret' = 0
                /\ outcome' = "failed"
                /\ fetch' = [Idle EXCEPT !.before = fetch.before]
           ELSE /\ fetch' = IF AllPresent(row)
                             THEN [fetch EXCEPT !.i = @ + 1, !.counter = @ + 1,
                                                !.buf = Append(@, FormatLine(row))]
                             ELSE [fetch EXCEPT !.i = @ + 1]
                /\ UNCHANGED <<file, ret, outcome>>
    /\ UNCHANGED <<t, loaded, plotVars, scaleVars>>

\* the write buffer is full and goes to disk (taken at line boundaries)
StepFlush ==
    /\ fetch.pc = "loop"
    /\ fetch.buf # <<>>
    /\ file' = FileOf(file.lines \o fetch.buf)
    /\ fetch' = [fetch EXCEPT !.buf = <<>>]
    /\ UNCHANGED <<t, ret, outcome, loaded, plotVars, scaleVars>>

\* query.py:38-41: the with block ends, the file is closed, counter returned
StepClose ==
    /\ fetch.pc = "loop"
    /\ fetch.i > Len(t.rows)
    /\ file' = FileOf(file.lines \o fetch.buf)
    /\ ret' = fetch.counter
    /\ outcome' = "ok"
    /\ fetch' = [Idle EXCEPT !.before = fetch.before]
    /\ UNCHANGED <<t, loaded, plotVars, scaleVars>>

\* load_data of a plot invocation reads the file as it is on disk.
\* previous is the dataset before the last call of query_atnf, dataset the
\* file the response last received gives when written to the end (whole)
StepLoad ==
    /\ loaded' = [done |-> TRUE,
                  during |-> fetch.pc # "idle",
                  content |-> file,
                  previous |-> fetch.before,
                  whole |-> t.received /\ RunsToEnd(t.rows),
                  dataset |-> DatasetOf(t.rows)]
    /\ UNCHANGED <<fetchVars, fetch, plotVars, scaleVars>>

-----------------------------------------------------------------------------
(* utils.py: scale_size *)

\* scale_size without the guard: python divides by zero
scale_size_Unguarded(value, value_min, value_max, smin, smax) ==
    IF value_max = value_min
    THEN [raised |-> "ZeroDivisionError", size |-> RatOf(0)]
    ELSE [raised |-> "none",
          size |-> RatAdd(RatMul(Rat(value - value_min, value_max - value_min),
                                 RatOf(smax - smin)),
                          RatOf(smin))]

\* scale_size with the value clipped to [value_min, value_max] first
scale_size_Clamped(value, value_min, value_max, smin, smax) ==
    IF value_max = value_min
    THEN [raised |-> "ValueError", size |-> RatOf(0)]
    ELSE LET lo == IF value_min < value_max THEN value_min ELSE value_max
             hi == IF value_min < value_max THEN value_max ELSE value_min
             v == IF value < lo THEN lo ELSE IF value > hi THEN hi ELSE value
         IN  [raised |-> "none",
              size |-> RatAdd(RatMul(Rat(v - value_min, value_max - value_min),
                                     RatOf(smax - smin)),
                              RatOf(smin))]

\* scale_size(value, value_min, value_max, smin, smax), utils.py:139-155
scale_size(value, value_min, value_max, smin, smax) ==
    IF value_max = value_min
    THEN [raised |-> "ValueError", size |-> RatOf(0)]
    ELSE [raised |-> "none",
          size |-> RatAdd(RatMul(Rat(value - value_min, value_max - value_min),
                                 RatOf(smax - smin)),
                          RatOf(smin))]

\* largest magnitude of an argument of scale_size
MaxVal == 2

ScaleValues == (-MaxVal)..MaxVal

NotCalled == [raised |-> "pending", size |-> RatOf(0)]

ScaleSize ==
    /\ scaleOut = NotCalled
    /\ scaleOut' = scale_size(scaleArgs.value, scaleArgs.value_min, scaleArgs.value_max,
                              scaleArgs.smin, scaleArgs.smax)
    /\ UNCHANGED <<fetchVars, plotVars, raceVars, scaleArgs>>

-----------------------------------------------------------------------------
(* Specifications *)

NoSaves == [o \in Outputs |-> "none"]

NoArgs == [value |-> 0, value_min |-> 0, value_max |-> 0, smin |-> 0, smax |-> 0]

\* the catalog fetcher, from a directory without dataset file
Init ==
    /\ file = NoFile
    /\ t = NoTable
    /\ ret = 0
    /\ outcome = "none"
    /\ emptyLoads = TRUE
    /\ plot = NoPlot
    /\ images = {}
    /\ saves = NoSaves
    /\ main = "distance"
    /\ fetch = Idle
    /\ loaded = NotLoaded
    /\ scaleArgs = NoArgs
    /\ scaleOut = NotCalled

Next == FetchFails \/ FetchAnswered

Spec == Init /\ [][Next]_vars

\* one plot function, on any dataset file and either numpy
InitPlot ==
    /\ file \in DatasetFiles
    /\ t = NoTable
    /\ ret = 0
    /\ outcome = "none"
    /\ emptyLoads \in BOOLEAN
    /\ plot = NoPlot
    /\ images = {}
    /\ saves = NoSaves
    /\ main = "distance"
    /\ fetch = Idle
    /\ loaded = NotLoaded
    /\ scaleArgs = NoArgs
    /\ scaleOut = NotCalled

NextPlot == PlotDistance \/ PlotNearby \/ PlotPpdot

SpecPlot == InitPlot /\ [][NextPlot]_vars

\* plot_msp_distance.py as a script, on any dataset file and either numpy
NextMain == MainDistance \/ MainNearby

SpecMain == InitPlot /\ [][NextMain]_vars

\* the fetcher step by step and a loader beside it
NextRace ==
    \/ StepQueryFails
    \/ StepQuery
    \/ StepOpen
    \/ StepRow
    \/ StepFlush
    \/ StepClose
    \/ StepLoad

SpecRace == Init /\ [][NextRace]_vars

\* scale_size, on any arguments of the grid
InitScale ==
    /\ file = NoFile
    /\ t = NoTable
    /\ ret = 0
    /\ outcome = "none"
    /\ emptyLoads = TRUE
    /\ plot = NoPlot
    /\ images = {}
    /\ saves = NoSaves
    /\ main = "distance"
    /\ fetch = Idle
    /\ loaded = NotLoaded
    /\ scaleArgs \in [value : ScaleValues, value_min : ScaleValues,
                      value_max : ScaleValues, smin : ScaleValues, smax : ScaleValues]
    /\ scaleOut = NotCalled

NextScale == ScaleSize

SpecScale == InitScale /\ [][NextScale]_vars

-----------------------------------------------------------------------------
(* Properties of the catalog fetcher, under Spec *)

\* the rows of a response none of whose five fields is the missing marker
Complete(row) == \A f \in Fields : row[f] # Missing
CompleteRows(rows) == SelectSeq(rows, Complete)

\* the file's fields in order, and the digits after the leading one of each
FieldOrder == <<"P0", "P1", "EDOT", "XX", "YY">>
FieldPrecision == <<5, 5, 5, 3, 3>>

ExpectedLine(row) ==
    [comment |-> FALSE,
     cols |-> [k \in 1..5 |-> Num(FormatE(row[FieldOrder[k]][2], FieldPrecision[k]))]]

\* C1: after a successful query_atnf the value returned is the number of
\* rows of the response with all five fields present, and the file holds
\* exactly that many data lines: a row with a missing field neither gives a
\* line nor counts.
C1_CountsCompleteRows ==
    outcome = "ok" =>
        /\ ret = Len(CompleteRows(t.rows))
        /\ Len(SelectSeq(file.lines, LAMBDA l : ~l.comment)) = Len(CompleteRows(t.rows))

\* a successful fetch of two rows, one complete and one with a missing field
C1_Witness ==
    /\ outcome = "ok"
    /\ Len(t.rows) = 2
    /\ ret = 1
    /\ \E i \in 1..2 : ~Complete(t.rows[i])

\* C2: a query_atnf that fails returns 0 and leaves the dataset file, where
\* there was one, with the content it had before the call.
C2_FailureLeavesFile ==
    [][(file.exists /\ outcome' = "failed") => (ret' = 0 /\ file' = file)]_vars

\* C4: after a successful query_atnf the file is the header line followed
\* by one line per complete row of that call's response, in response order,
\* fields in the order P0, P1, EDOT, XX, YY; nothing of earlier fetches
\* remains.
C4_FullRewrite ==
    outcome = "ok" =>
        LET rows == CompleteRows(t.rows)
        IN  file = FileOf(<<HeaderLine>> \o [i \in 1..Len(rows) |-> ExpectedLine(rows[i])])

\* a successful fetch that wrote two different lines, rounded on the way
C4_Witness ==
    /\ outcome = "ok"
    /\ Len(file.lines) = 3
    /\ file.lines[2] # file.lines[3]
    /\ file.lines[2].cols[4] = Num(-12350)
    /\ t.rows[1].XX = Num(-12346)

-----------------------------------------------------------------------------
(* Properties of the plots, under SpecPlot *)

\* the columns the loader of a plot function requests
RequestedColumns(fn) == IF fn = "ppdot" THEN 3 ELSE 5

OutputOf(fn) ==
    CASE fn = "distance" -> "ATNF_msp_distance.pdf"
      [] fn = "nearby"   -> "ATNF_msp_nearby.pdf"
      [] fn = "ppdot"    -> "ATNF_PPDOT.pdf"

DataLines(f) == SelectSeq(f.lines, LAMBDA l : ~l.comment)

FileMissing(f) == ~f.exists
FileEmpty(f) == f.exists /\ Len(DataLines(f)) = 0
FileMalformed(f, ncols) ==
    /\ f.exists
    /\ \E i \in 1..Len(DataLines(f)) :
          \/ Len(DataLines(f)[i].cols) < ncols
          \/ \E k \in 1..ncols : DataLines(f)[i].cols[k][1] # "num"

\* C3: on a dataset file that is missing, malformed or empty (header only)
\* a plot function gets no data from load_data and returns without calling
\* savefig, without writing its image and without raising.
C3_NoDataNoPlot ==
    (/\ plot.fn # "none"
     /\ \/ FileMissing(file)
        \/ FileEmpty(file)
        \/ FileMalformed(file, RequestedColumns(plot.fn)))
    => /\ ~plot.loaded
       /\ ~plot.savefig
       /\ ~plot.raised
       /\ OutputOf(plot.fn) \notin images

\* C7: the records plot_nearby selects fall into the millisecond and the
\* normal group, each into exactly one: the two sums of EDOT / distance^2
\* add up to the sum over all selected records.
C7_GroupsPartition ==
    (plot.fn = "nearby" /\ plot.loaded) =>
        RatEq(RatAdd(plot.msp_count, plot.normal_count),
              RatSum([i \in 1..Len(plot.selected) |->
                         <<plot.selected[i][3],
                           (plot.selected[i][4] + 8) * (plot.selected[i][4] + 8)
                              + plot.selected[i][5] * plot.selected[i][5]>>], 1))

\* C8: the nearby/old mask applied to the records plot_nearby selected
\* selects every one of them again.
C8_MaskIdempotent ==
    (plot.fn = "nearby" /\ plot.loaded) =>
        Masked(plot.selected, NearbyMask(plot.selected), 1) = plot.selected

\* plot_nearby kept one record of a file of two and dropped the other
C8_Witness ==
    /\ plot.fn = "nearby"
    /\ plot.loaded
    /\ Len(DataLines(file)) = 2
    /\ Len(plot.selected) = 1

-----------------------------------------------------------------------------
(* Properties of the script plot_msp_distance.py, under SpecMain *)

\* C9: a failure to write the image of plot_distance is caught by savefig:
\* the process does not end there, and plot_nearby runs to its own savefig
\* call, whose outcome is its own.
C9_SaveFailureContained ==
    saves["ATNF_msp_distance.pdf"] = "failed" =>
        /\ main # "crashed"
        /\ main = "done" => saves["ATNF_msp_nearby.pdf"] # "none"

\* the image of plot_distance failed to save and that of plot_nearby was
\* saved
C9_Witness ==
    /\ main = "done"
    /\ saves["ATNF_msp_distance.pdf"] = "failed"
    /\ saves["ATNF_msp_nearby.pdf"] = "saved"
    /\ images = {"ATNF_msp_nearby.pdf"}

-----------------------------------------------------------------------------
(* Properties of fetch and load side by side, under SpecRace *)

\* C10: a load_data that runs while no query_atnf is running (strictly
\* sequential fetch-then-plot) reads a complete dataset: the complete new
\* one, the header and a line for every complete row of the response last
\* received, or the complete previous one.
C10_SequentialLoadsComplete ==
    (loaded.done /\ ~loaded.during) =>
        \/ loaded.content = loaded.previous
        \/ loaded.whole /\ loaded.content = loaded.dataset

\* a load beside a running fetch reads the header and a strict prefix of
\* the new rows
RaceReadsPrefix ==
    /\ loaded.done
    /\ loaded.during
    /\ loaded.whole
    /\ loaded.content # loaded.previous
    /\ Len(loaded.content.lines) = 2
    /\ Len(loaded.dataset.lines) = 3
    /\ loaded.content.lines = SubSeq(loaded.dataset.lines, 1, 2)

NoRaceReadsPrefix == ~RaceReadsPrefix

\* the step by step fetcher leaves what query_atnf leaves
StepwiseAgrees ==
    (fetch.pc = "idle" /\ outcome = "ok") =>
        /\ file = DatasetOf(t.rows)
        /\ ret = WriteRows(t.rows, 1, <<HeaderLine>>, 0).counter

-----------------------------------------------------------------------------
(* Properties of scale_size, under SpecScale *)

Called == scaleOut # NotCalled

\* C5: scale_size called with value_max = value_min raises ValueError, for
\* every value, smin and smax, and returns no size.
C5_DegenerateRaises ==
    (Called /\ scaleArgs.value_max = scaleArgs.value_min) =>
        scaleOut.raised = "ValueError"

\* the degenerate call with a value off the domain and distinct sizes
C5_Witness ==
    /\ Called
    /\ scaleArgs.value_max = scaleArgs.value_min
    /\ scaleArgs.value # scaleArgs.value_min
    /\ scaleArgs.smin < scaleArgs.smax
    /\ scaleOut.raised = "ValueError"

====
